---- MODULE Spec2Model ----
(***************************************************************************)
(* Model of backend/app/main.py: the MTG card database proxy.  The state   *)
(* is the module-level cache dictionary, the wall clock, and the request   *)
(* handlers that are idle, suspended on the upstream call, or finished.    *)
(*                                                                         *)
(* Python values are modelled as follows.  A str that the code takes apart *)
(* (q, colors, types, rarity, card_name, the cache key, the query string,  *)
(* the card fields) is a sequence of one-character strings.  A fixed       *)
(* literal that is only passed along (a message, an error detail) is a     *)
(* TLA+ string.  A dict is a record; a list is a sequence; the empty str,   *)
(* list and dict are all <<>> (all are falsy).  TLC compares values of one *)
(* kind only, so None is written per kind of slot: None in a slot that     *)
(* otherwise holds a str, NoneDict in a slot that otherwise holds a dict,  *)
(* NoneInt in a slot that otherwise holds an int.                          *)
(***************************************************************************)
EXTENDS Integers, Sequences, FiniteSets, TLC

(***************************************************************************)
(* Bounds of the model.                                                    *)
(***************************************************************************)
\* search_cards and get_card_printings requests started in one behaviour.
MaxRequests == 2
\* Clock readings after the initial one; the clock advances by ClockStep.
MaxTicks == 2

(***************************************************************************)
(* Python built-ins used by the handlers.                                  *)
(***************************************************************************)
None == <<"None">>
NoneDict == [none |-> TRUE]
NoneInt == -1

\* bool(v) of an Optional[str]: None and "" are falsy.
Truthy(v) == v # None /\ v # <<>>
\* bool(v) of a list or dict: empty is falsy.
NonEmpty(v) == v # <<>>
\* bool(v) of an Optional[dict]: None and {} are falsy.
TruthyDict(v) == v # NoneDict /\ v # <<>>

\* a or b
Or(a, b) == IF Truthy(a) THEN a ELSE b

\* d.get(k) and d.get(k, default)
Get(d, k) == IF k \in DOMAIN d THEN d[k] ELSE None
GetDefault(d, k, default) == IF k \in DOMAIN d THEN d[k] ELSE default

LowerLetters ==
    << "a", "b", "c", "d", "e", "f", "g", "h", "i", "j", "k", "l", "m",
       "n", "o", "p", "q", "r", "s", "t", "u", "v", "w", "x", "y", "z" >>
UpperLetters ==
    << "A", "B", "C", "D", "E", "F", "G", "H", "I", "J", "K", "L", "M",
       "N", "O", "P", "Q", "R", "S", "T", "U", "V", "W", "X", "Y", "Z" >>
Whitespace == { " " }

\* Position of character c in table tbl, 0 when it is not there.
IndexIn(c, tbl) ==
    IF \E i \in 1..Len(tbl) : tbl[i] = c
    THEN CHOOSE i \in 1..Len(tbl) : tbl[i] = c
    ELSE 0

\* str.upper() and str.lower()
upper(s) ==
    [i \in 1..Len(s) |->
        IF IndexIn(s[i], LowerLetters) > 0
        THEN UpperLetters[IndexIn(s[i], LowerLetters)] ELSE s[i]]
lower(s) ==
    [i \in 1..Len(s) |->
        IF IndexIn(s[i], UpperLetters) > 0
        THEN LowerLetters[IndexIn(s[i], UpperLetters)] ELSE s[i]]

\* str.strip(): leading and trailing whitespace removed.
RECURSIVE lstrip(_)
lstrip(s) ==
    IF s # <<>> /\ Head(s) \in Whitespace THEN lstrip(Tail(s)) ELSE s
RECURSIVE rstrip(_)
rstrip(s) ==
    IF s # <<>> /\ s[Len(s)] \in Whitespace
    THEN rstrip(SubSeq(s, 1, Len(s) - 1)) ELSE s
strip(s) == rstrip(lstrip(s))

\* s.split(sep) for a one-character separator: "".split(",") is [""].
RECURSIVE split(_, _)
split(s, sep) ==
    IF \E i \in 1..Len(s) : s[i] = sep
    THEN LET i == CHOOSE j \in 1..Len(s) :
                     s[j] = sep /\ \A h \in 1..(j - 1) : s[h] # sep
         IN  <<SubSeq(s, 1, i - 1)>> \o split(SubSeq(s, i + 1, Len(s)), sep)
    ELSE <<s>>

\* sep.join(parts)
RECURSIVE join(_, _)
join(sep, parts) ==
    IF parts = <<>> THEN <<>>
    ELSE IF Len(parts) = 1 THEN parts[1]
    ELSE parts[1] \o sep \o join(sep, Tail(parts))

\* str(n) for n >= 0: the decimal digits.
Digits == << "0", "1", "2", "3", "4", "5", "6", "7", "8", "9" >>
RECURSIVE str(_)
str(n) ==
    IF n < 10 THEN <<Digits[n + 1]>>
    ELSE str(n \div 10) \o <<Digits[(n % 10) + 1]>>

\* Code-point order of the characters that occur in compared strings.
CodePoints ==
    << " ", "!", "*", ",", "-" >> \o Digits \o << ":" >> \o UpperLetters
        \o LowerLetters

\* a < b on str: lexicographic by code point.
RECURSIVE StrLess(_, _)
StrLess(a, b) ==
    IF b = <<>> THEN FALSE
    ELSE IF a = <<>> THEN TRUE
    ELSE IF Head(a) = Head(b) THEN StrLess(Tail(a), Tail(b))
    ELSE IndexIn(Head(a), CodePoints) < IndexIn(Head(b), CodePoints)

(***************************************************************************)
(* Module-level definitions of main.py.                                    *)
(***************************************************************************)
\* CACHE_DURATION = timedelta(minutes=10); the clock counts minutes.
CACHE_DURATION == 10
\* The clock is read at multiples of half the cache duration, so that ages
\* below, equal to and above CACHE_DURATION all occur.
ClockStep == CACHE_DURATION \div 2

\* f"search:{query}:{page}:{colors}:{types}:{rarity}"
get_cache_key(query, page, colors, types, rarity) ==
    << "s", "e", "a", "r", "c", "h", ":" >> \o query \o << ":" >> \o str(page)
        \o << ":" >> \o colors \o << ":" >> \o types \o << ":" >> \o rarity

\* Mutant: the printings key carries the prefix of the search keys.
printings_cache_key_search_prefix(card_name) ==
    << "s", "e", "a", "r", "c", "h", ":" >> \o lower(card_name)

\* f"printings:{card_name.lower()}"
printings_cache_key(card_name) ==
    << "p", "r", "i", "n", "t", "i", "n", "g", "s", ":" >> \o lower(card_name)

(***************************************************************************)
(* search_cards: the parts that compute without touching the state.        *)
(* A request a is [q, page, colors, types, rarity].                        *)
(***************************************************************************)
\* Mutant: `is None` tests, so empty strings count as criteria.
NoCriteriaNoneOnly(a) ==
    a.q = None /\ a.colors = None /\ a.types = None /\ a.rarity = None

\* if not q and not colors and not types and not rarity
NoCriteria(a) ==
    ~Truthy(a.q) /\ ~Truthy(a.colors) /\ ~Truthy(a.types) /\ ~Truthy(a.rarity)

NoCriteriaResult(a) ==
    [ data |-> <<>>, total_cards |-> 0, has_more |-> FALSE, page |-> a.page,
      message |-> "Please provide a search query or apply filters." ]

\* cache_key = get_cache_key(q or "", page, colors or "", types or "", rarity or "")
SearchCacheKey(a) ==
    get_cache_key(Or(a.q, <<>>), a.page, Or(a.colors, <<>>),
                  Or(a.types, <<>>), Or(a.rarity, <<>>))

\* [f(x) for x in xs]
RECURSIVE StripUpperAll(_)
StripUpperAll(xs) ==
    IF xs = <<>> THEN <<>>
    ELSE <<upper(strip(Head(xs)))>> \o StripUpperAll(Tail(xs))
\* Mutant: the type tokens come out in reverse order.
RECURSIVE TypeTokensReversed(_)
TypeTokensReversed(xs) ==
    IF xs = <<>> THEN <<>>
    ELSE TypeTokensReversed(Tail(xs))
            \o << <<"t", ":">> \o lower(strip(Head(xs))) >>

RECURSIVE TypeTokens(_)
TypeTokens(xs) ==
    IF xs = <<>> THEN <<>>
    ELSE << <<"t", ":">> \o lower(strip(Head(xs))) >> \o TypeTokens(Tail(xs))

\* search_parts, as built from the filters.
SearchParts(a) ==
    LET text   == IF Truthy(a.q)
                  THEN (IF strip(a.q) # <<>> THEN <<strip(a.q)>> ELSE <<>>)
                  ELSE <<>>
        color  == IF Truthy(a.colors)
                  THEN << <<"c", ":">>
                            \o join(<<>>, StripUpperAll(split(a.colors, ","))) >>
                  ELSE <<>>
        type   == IF Truthy(a.types)
                  THEN TypeTokens(split(a.types, ","))
                  ELSE <<>>
        rar    == IF Truthy(a.rarity)
                  THEN << <<"r", ":">> \o lower(a.rarity) >>
                  ELSE <<>>
        parts  == text \o color \o type \o rar
    IN  IF parts = <<>> THEN << <<"*">> >> ELSE parts

\* search_query = " ".join(search_parts)
SearchQuery(a) == join(<<" ">>, SearchParts(a))

\* params of the GET {SCRYFALL_API_BASE}/cards/search
SearchParams(a) ==
    [ q |-> SearchQuery(a), page |-> a.page, format |-> "json" ]

\* The payload returned and cached on an upstream 404.
SearchNotFoundResult(a) ==
    [ data |-> <<>>, total_cards |-> 0, has_more |-> FALSE, page |-> a.page,
      message |-> "No cards found matching your search." ]

(***************************************************************************)
(* search_cards: the response normaliser.  A raw card is a record holding  *)
(* the fields the upstream JSON object has.                                *)
(***************************************************************************)
\* card_info of a card with card_faces.
MultiFacedCardInfo(card) ==
    LET faces      == GetDefault(card, "card_faces", <<>>)
        front_face == IF NonEmpty(faces) THEN faces[1] ELSE <<>>
        back_face  == IF Len(faces) > 1 THEN faces[2] ELSE NoneDict
    IN  [ id |-> Get(card, "id"),
          name |-> Get(card, "name"),
          mana_cost |-> Or(Get(front_face, "mana_cost"), Get(card, "mana_cost")),
          type_line |-> Or(Get(front_face, "type_line"), Get(card, "type_line")),
          oracle_text |->
              Or(Get(front_face, "oracle_text"), Get(card, "oracle_text")),
          power |-> Get(front_face, "power"),
          toughness |-> Get(front_face, "toughness"),
          colors |-> GetDefault(card, "colors", <<>>),
          rarity |-> Get(card, "rarity"),
          set_name |-> Get(card, "set_name"),
          collector_number |-> Get(card, "collector_number"),
          image_uris |->
              IF NonEmpty(GetDefault(front_face, "image_uris", <<>>))
              THEN front_face.image_uris
              ELSE GetDefault(card, "image_uris", <<>>),
          scryfall_uri |-> Get(card, "scryfall_uri"),
          prices |-> GetDefault(card, "prices", <<>>),
          has_multiple_faces |-> TRUE,
          card_faces |->
              [ front |->
                  [ name |-> Get(front_face, "name"),
                    mana_cost |-> Get(front_face, "mana_cost"),
                    type_line |-> Get(front_face, "type_line"),
                    oracle_text |-> Get(front_face, "oracle_text"),
                    power |-> Get(front_face, "power"),
                    toughness |-> Get(front_face, "toughness"),
                    image_uris |-> GetDefault(front_face, "image_uris", <<>>) ],
                back |->
                  IF TruthyDict(back_face)
                  THEN [ name |-> Get(back_face, "name"),
                         mana_cost |-> Get(back_face, "mana_cost"),
                         type_line |-> Get(back_face, "type_line"),
                         oracle_text |-> Get(back_face, "oracle_text"),
                         power |-> Get(back_face, "power"),
                         toughness |-> Get(back_face, "toughness"),
                         image_uris |->
                             GetDefault(back_face, "image_uris", <<>>) ]
                  ELSE NoneDict ] ]

\* card_info of a card without card_faces.
SingleFacedCardInfo(card) ==
    [ id |-> Get(card, "id"),
      name |-> Get(card, "name"),
      mana_cost |-> Get(card, "mana_cost"),
      type_line |-> Get(card, "type_line"),
      oracle_text |-> Get(card, "oracle_text"),
      power |-> Get(card, "power"),
      toughness |-> Get(card, "toughness"),
      colors |-> GetDefault(card, "colors", <<>>),
      rarity |-> Get(card, "rarity"),
      set_name |-> Get(card, "set_name"),
      collector_number |-> Get(card, "collector_number"),
      image_uris |-> GetDefault(card, "image_uris", <<>>),
      scryfall_uri |-> Get(card, "scryfall_uri"),
      prices |-> GetDefault(card, "prices", <<>>),
      has_multiple_faces |-> FALSE,
      card_faces |-> NoneDict ]

\* if card.get("card_faces"): ... else: ...
CardInfo(card) ==
    IF NonEmpty(GetDefault(card, "card_faces", <<>>))
    THEN MultiFacedCardInfo(card)
    ELSE SingleFacedCardInfo(card)

\* for card in scryfall_data.get("data", []): cards.append(card_info)
RECURSIVE Cards(_)
Cards(data) ==
    IF data = <<>> THEN <<>> ELSE <<CardInfo(Head(data))>> \o Cards(Tail(data))

\* result of a search whose upstream response parsed to scryfall_data.
SearchResult(a, scryfall_data) ==
    [ data |-> Cards(GetDefault(scryfall_data, "data", <<>>)),
      total_cards |-> GetDefault(scryfall_data, "total_cards", 0),
      has_more |-> GetDefault(scryfall_data, "has_more", FALSE),
      page |-> a.page,
      next_page |-> IF GetDefault(scryfall_data, "has_more", FALSE)
                    THEN a.page + 1 ELSE NoneInt ]

(***************************************************************************)
(* get_card_printings: the parts that compute without touching the state.  *)
(***************************************************************************)
\* params of the GET: q is !"{card_name}"
PrintingsParams(card_name) ==
    [ q |-> << "!", "\"" >> \o card_name \o << "\"" >>,
      format |-> "json", unique |-> "prints" ]

PrintingsNotFoundResult ==
    [ data |-> <<>>, total_printings |-> 0,
      message |-> "No printings found for this card." ]

PrintingInfo(card) ==
    LET top   == GetDefault(card, "image_uris", <<>>)
        split_faces == ~NonEmpty(top)
                          /\ NonEmpty(GetDefault(card, "card_faces", <<>>))
        faces == GetDefault(card, "card_faces", <<>>)
        front_face == IF NonEmpty(faces) THEN faces[1] ELSE <<>>
        back_face  == IF Len(faces) > 1 THEN faces[2] ELSE NoneDict
        image_uris == IF split_faces
                      THEN GetDefault(front_face, "image_uris", <<>>) ELSE top
        back_image_uris ==
            IF split_faces /\ TruthyDict(back_face)
            THEN GetDefault(back_face, "image_uris", <<>>) ELSE <<>>
    IN  [ id |-> Get(card, "id"),
          name |-> Get(card, "name"),
          set_name |-> Get(card, "set_name"),
          set_code |-> Get(card, "set"),
          collector_number |-> Get(card, "collector_number"),
          released_at |-> Get(card, "released_at"),
          rarity |-> Get(card, "rarity"),
          artist |-> Get(card, "artist"),
          flavor_text |-> Get(card, "flavor_text"),
          image_uris |-> image_uris,
          back_image_uris |->
              IF NonEmpty(back_image_uris) THEN back_image_uris ELSE NoneDict,
          prices |-> GetDefault(card, "prices", <<>>),
          scryfall_uri |-> Get(card, "scryfall_uri") ]

RECURSIVE Printings(_)
Printings(data) ==
    IF data = <<>> THEN <<>>
    ELSE <<PrintingInfo(Head(data))>> \o Printings(Tail(data))

\* key=lambda x: x.get("released_at", ""): printing_info always has the key.
SortKey(x) == GetDefault(x, "released_at", <<>>)

\* list.sort compares keys with <: between None and a str, or two None, it
\* raises TypeError.  A list of fewer than two elements compares nothing.
SortRaises(xs) ==
    Len(xs) >= 2 /\ \E i \in 1..Len(xs) : SortKey(xs[i]) = None

\* xs sorted with x inserted after every element whose key is >= x's key.
RECURSIVE InsertDescending(_, _)
InsertDescending(x, xs) ==
    IF xs = <<>> THEN <<x>>
    ELSE IF StrLess(SortKey(Head(xs)), SortKey(x))
         THEN <<x>> \o xs
         ELSE <<Head(xs)>> \o InsertDescending(x, Tail(xs))

\* printings.sort(key=..., reverse=True): descending and stable.
RECURSIVE SortDescending(_)
SortDescending(xs) ==
    IF xs = <<>> THEN <<>>
    ELSE InsertDescending(xs[Len(xs)], SortDescending(SubSeq(xs, 1, Len(xs) - 1)))

PrintingsResult(card_name, scryfall_data) ==
    LET printings ==
            SortDescending(Printings(GetDefault(scryfall_data, "data", <<>>)))
    IN  [ data |-> printings, total_printings |-> Len(printings),
          card_name |-> card_name ]

\* printings.sort raises on this response.
PrintingsRaises(scryfall_data) ==
    SortRaises(Printings(GetDefault(scryfall_data, "data", <<>>)))

(***************************************************************************)
(* The requests and the upstream responses the model draws from.           *)
(***************************************************************************)
Tasks == { 1, 2 }

\* search_cards arguments: q, colors, types and rarity are Optional[str].
SearchArgs(q, page, colors, types, rarity) ==
    [ q |-> q, page |-> page, colors |-> colors, types |-> types,
      rarity |-> rarity ]

SearchRequests ==
    { SearchArgs(None, 1, None, None, None),
      SearchArgs(<<>>, 2, <<>>, <<>>, <<>>),
      SearchArgs(<<" ">>, 1, None, None, None),
      SearchArgs(<<"a", " ">>, 1, <<"R", ",", "U">>, <<"E", "l", "f">>,
                 <<"R", "a", "r", "e">>),
      SearchArgs(<<" ", "a">>, 1, <<"r", ",", " ", "u">>, <<"e", "l", "f">>,
                 <<"r", "a", "r", "e">>) }

PrintingsRequests == { << "O", "p", "t" >> }

\* Raw upstream card objects.
RawSingle ==
    [ id |-> <<"1">>, name |-> <<"B", "o", "l", "t">>, mana_cost |-> <<"R">>,
      type_line |-> <<"I">>, oracle_text |-> <<"d">>, colors |-> << <<"R">> >>,
      rarity |-> <<"c">>, set_name |-> <<"A">>, collector_number |-> <<"7">>,
      image_uris |-> [normal |-> <<"u", "1">>], scryfall_uri |-> <<"s", "1">>,
      prices |-> [usd |-> <<"1">>], released_at |-> <<"2", "0", "2", "0">>,
      set |-> <<"l", "e", "a">> ]
RawDouble ==
    [ id |-> <<"2">>, name |-> <<"D">>, type_line |-> <<"C", "/", "C">>,
      power |-> <<"9">>, colors |-> << <<"U">> >>, rarity |-> <<"r">>,
      released_at |-> <<"2", "0", "2", "3">>,
      card_faces |->
        << [ name |-> <<"F">>, mana_cost |-> <<"U">>, type_line |-> <<"C">>,
             power |-> <<"3">>, toughness |-> <<"2">>,
             image_uris |-> [normal |-> <<"u", "2">>] ],
           [ name |-> <<"K">>, type_line |-> <<"C">>, power |-> <<"3">>,
             toughness |-> <<"3">>, image_uris |-> [normal |-> <<"u", "3">>] ] >> ]
RawUndated == [ id |-> <<"3">>, name |-> <<"B", "o", "l", "t">> ]

\* Parsed JSON bodies of a 200 response.
SearchBodies ==
    { [ data |-> <<RawDouble, RawSingle>>, total_cards |-> 200,
        has_more |-> TRUE ] }
PrintingsBodies ==
    { [ data |-> <<RawSingle, RawDouble>> ],
      [ data |-> <<RawSingle, RawUndated>> ] }

\* What `await client.get(...)` yields: an exception, or a response with a
\* status code, a text and a JSON body (NoneDict: the body is not JSON).
Raised(exc) ==
    [ exc |-> exc, status_code |-> 0, text |-> "", json |-> NoneDict ]
Responded(status_code, text, json) ==
    [ exc |-> "none", status_code |-> status_code, text |-> text, json |-> json ]
ErrorStatuses == { 503 }
UpstreamFailures ==
    { Raised("TimeoutException"),
      Responded(404, "not found", NoneDict),
      Responded(200, "<html>", NoneDict) }
        \cup { Responded(c, "upstream error", NoneDict) : c \in ErrorStatuses }
SearchUpstream ==
    UpstreamFailures \cup { Responded(200, "json", b) : b \in SearchBodies }
PrintingsUpstream ==
    UpstreamFailures \cup { Responded(200, "json", b) : b \in PrintingsBodies }

\* Mutant: every status other than 200 is taken for "no results".
IsNotFoundAnyNon200(resp) == resp.status_code # 200
\* Mutant: the 404 branch is missing.
IsNotFoundNever(resp) == FALSE

\* if response.status_code == 404
IsNotFound(resp) == resp.status_code = 404

\* Mutant: every error is reported as an internal error.
HTTPExceptionAlways500(status_code, what, text) ==
    [ status |-> 500, body |-> [ detail |-> <<what, text>> ] ]

\* HTTPException(status_code, detail) as the client sees it.
HTTPException(status_code, what, text) ==
    [ status |-> status_code, body |-> [ detail |-> <<what, text>> ] ]
\* A returned payload: status 200.
Returned(payload) == [ status |-> 200, body |-> payload ]

(***************************************************************************)
(* The state.                                                              *)
(***************************************************************************)
VARIABLES
    cache,      \* the module-level dict: cache key -> <<data, timestamp>>
    now,        \* datetime.now(), in minutes
    pc,         \* per task: "idle", "await" (suspended in client.get), "done"
    handler,    \* per task: the path operation it runs
    args,       \* per task: the request's arguments
    cache_key,  \* per task: the local cache_key
    sent,       \* per task: the params of the upstream GET it issued
    calls,      \* per task: upstream GETs issued by the request
    put_time,   \* per task: the timestamp it stored in the cache
    response,   \* per task: the local response, what client.get yielded
    evicted,    \* per task: it found its key expired and deleted it
    reply,      \* per task: what the client receives
    started,    \* search_cards and get_card_printings requests started so far
    writer,     \* cache key -> the task whose assignment cache[key] holds
    flushed     \* per task: clear_cache has run since it suspended in client.get

vars == << cache, now, pc, handler, args, cache_key, sent, calls, put_time,
           response, evicted, reply, started, writer, flushed >>

\* Task p takes the next request: the tasks are interchangeable, so the
\* lowest idle one does.
Free(p) == pc[p] = "idle" /\ \A q \in Tasks : q < p => pc[q] # "idle"

\* d[k] = v, del d[k] and d.clear() on a dict d.
DictSet(d, k, v) == [ x \in DOMAIN d \cup {k} |-> IF x = k THEN v ELSE d[x] ]
DictDel(d, k) == [ x \in DOMAIN d \ {k} |-> d[x] ]
EmptyDict == [ x \in {} |-> {} ]

\* Mutant: the expired entry is left in place.
CacheDelSkipped(c, k) == c

\* Mutant: the miss also sweeps every other expired entry.
CacheDelSweep(c, k) ==
    [ x \in { y \in DOMAIN c :
                y # k /\ now - c[y][2] < CACHE_DURATION } |-> c[x] ]

\* del cache[cache_key]; the handlers reach it only for a resident key, and
\* the model applies it on every miss (it changes nothing for an absent key).
CacheDel(c, k) == DictDel(c, k)

\* Mutant: an entry already there is kept (dict.setdefault).
CachePutIfAbsent(c, k, result, timestamp) ==
    IF k \in DOMAIN c THEN c ELSE DictSet(c, k, <<result, timestamp>>)

\* Mutant: a replaced entry keeps the timestamp it had.
CachePutKeepStamp(c, k, result, timestamp) ==
    DictSet(c, k, <<result, IF k \in DOMAIN c THEN c[k][2] ELSE timestamp>>)

\* cache[cache_key] = (result, datetime.now())
CachePut(c, k, result, timestamp) == DictSet(c, k, <<result, timestamp>>)

\* Mutant: an entry exactly CACHE_DURATION old still counts as valid.
is_cache_valid_inclusive(timestamp) == now - timestamp <= CACHE_DURATION

\* datetime.now() - timestamp < CACHE_DURATION
is_cache_valid(timestamp) == now - timestamp < CACHE_DURATION

Init ==
    /\ cache = EmptyDict
    /\ now = 0
    /\ pc = [ p \in Tasks |-> "idle" ]
    /\ handler = [ p \in Tasks |-> "none" ]
    /\ args = [ p \in Tasks |-> NoneDict ]
    /\ cache_key = [ p \in Tasks |-> None ]
    /\ sent = [ p \in Tasks |-> NoneDict ]
    /\ calls = [ p \in Tasks |-> 0 ]
    /\ put_time = [ p \in Tasks |-> NoneInt ]
    /\ response = [ p \in Tasks |-> NoneDict ]
    /\ evicted = [ p \in Tasks |-> FALSE ]
    /\ reply = [ p \in Tasks |-> NoneDict ]
    /\ started = 0
    /\ writer = EmptyDict
    /\ flushed = [ p \in Tasks |-> FALSE ]

(***************************************************************************)
(* search_cards.                                                           *)
(***************************************************************************)
\* Mutant: a timeout is answered like "no results" instead of raising.
SearchCompletionTimeoutAsEmpty(a, resp) ==
    IF resp.exc = "TimeoutException"
    THEN [ out |-> Returned(SearchNotFoundResult(a)), put |-> FALSE ]
    ELSE IF resp.exc # "none"
    THEN [ out |-> HTTPException(500, "Internal server error: ", resp.exc),
           put |-> FALSE ]
    ELSE IF IsNotFound(resp)
    THEN [ out |-> Returned(SearchNotFoundResult(a)), put |-> TRUE ]
    ELSE IF resp.status_code \notin 200..299
    THEN [ out |-> HTTPException(resp.status_code, "Scryfall API error: ",
                                 resp.text),
           put |-> FALSE ]
    ELSE IF resp.json = NoneDict
    THEN [ out |-> HTTPException(500, "Internal server error: ",
                                 "JSONDecodeError"),
           put |-> FALSE ]
    ELSE [ out |-> Returned(SearchResult(a, resp.json)), put |-> TRUE ]

\* What the handler does once `await client.get(...)` has yielded resp:
\* the response it ends with, and whether it stores that payload first.
SearchCompletion(a, resp) ==
    IF resp.exc = "TimeoutException"
    THEN [ out |-> HTTPException(504, "Request to Scryfall API timed out", ""),
           put |-> FALSE ]
    ELSE IF resp.exc # "none"
    THEN [ out |-> HTTPException(500, "Internal server error: ", resp.exc),
           put |-> FALSE ]
    ELSE IF IsNotFound(resp)
    THEN [ out |-> Returned(SearchNotFoundResult(a)), put |-> TRUE ]
    ELSE IF resp.status_code \notin 200..299
    THEN [ out |-> HTTPException(resp.status_code, "Scryfall API error: ",
                                 resp.text),
           put |-> FALSE ]
    ELSE IF resp.json = NoneDict
    THEN [ out |-> HTTPException(500, "Internal server error: ",
                                 "JSONDecodeError"),
           put |-> FALSE ]
    ELSE [ out |-> Returned(SearchResult(a, resp.json)), put |-> TRUE ]

\* Lines 58-119: from the call to the suspension in client.get, or to the
\* return of the empty payload or of the cached payload.
SearchCardsBegin(p, a) ==
    /\ Free(p)
    /\ started < MaxRequests
    /\ started' = started + 1
    /\ handler' = [handler EXCEPT ![p] = "search_cards"]
    /\ args' = [args EXCEPT ![p] = a]
    /\ IF NoCriteria(a)
       THEN /\ pc' = [pc EXCEPT ![p] = "done"]
            /\ reply' = [reply EXCEPT ![p] = Returned(NoCriteriaResult(a))]
            /\ UNCHANGED << cache, writer, cache_key, sent, calls, evicted >>
       ELSE LET k == SearchCacheKey(a) IN
            /\ cache_key' = [cache_key EXCEPT ![p] = k]
            /\ IF k \in DOMAIN cache /\ is_cache_valid(cache[k][2])
               THEN /\ pc' = [pc EXCEPT ![p] = "done"]
                    /\ reply' = [reply EXCEPT ![p] = Returned(cache[k][1])]
                    /\ UNCHANGED << cache, writer, sent, calls, evicted >>
               ELSE /\ cache' = CacheDel(cache, k)
                    /\ writer' = DictDel(writer, k)
                    /\ evicted' = [evicted EXCEPT ![p] = k \in DOMAIN cache]
                    /\ pc' = [pc EXCEPT ![p] = "await"]
                    /\ sent' = [sent EXCEPT ![p] = SearchParams(a)]
                    /\ calls' = [calls EXCEPT ![p] = @ + 1]
                    /\ UNCHANGED reply
    /\ UNCHANGED << now, put_time, response, flushed >>

\* Lines 121-224: from the resumption after client.get to the return or raise.
SearchCardsResume(p, resp) ==
    /\ pc[p] = "await"
    /\ handler[p] = "search_cards"
    /\ response' = [response EXCEPT ![p] = resp]
    /\ LET c == SearchCompletion(args[p], resp) IN
       /\ reply' = [reply EXCEPT ![p] = c.out]
       /\ IF c.put
          THEN /\ cache' = CachePut(cache, cache_key[p], c.out.body, now)
               /\ writer' = DictSet(writer, cache_key[p], p)
               /\ put_time' = [put_time EXCEPT ![p] = now]
          ELSE UNCHANGED << cache, writer, put_time >>
    /\ pc' = [pc EXCEPT ![p] = "done"]
    /\ flushed' = [flushed EXCEPT ![p] = FALSE]
    /\ UNCHANGED << now, handler, args, cache_key, sent, calls, evicted,
                    started >>

(***************************************************************************)
(* get_card_printings.                                                     *)
(***************************************************************************)
PrintingsCompletion(card_name, resp) ==
    IF resp.exc = "TimeoutException"
    THEN [ out |-> HTTPException(504, "Request to Scryfall API timed out", ""),
           put |-> FALSE ]
    ELSE IF resp.exc # "none"
    THEN [ out |-> HTTPException(500, "Internal server error: ", resp.exc),
           put |-> FALSE ]
    ELSE IF IsNotFound(resp)
    THEN [ out |-> Returned(PrintingsNotFoundResult), put |-> TRUE ]
    ELSE IF resp.status_code \notin 200..299
    THEN [ out |-> HTTPException(resp.status_code, "Scryfall API error: ",
                                 resp.text),
           put |-> FALSE ]
    ELSE IF resp.json = NoneDict
    THEN [ out |-> HTTPException(500, "Internal server error: ",
                                 "JSONDecodeError"),
           put |-> FALSE ]
    ELSE IF PrintingsRaises(resp.json)
    THEN [ out |-> HTTPException(500, "Internal server error: ", "TypeError"),
           put |-> FALSE ]
    ELSE [ out |-> Returned(PrintingsResult(card_name, resp.json)),
           put |-> TRUE ]

\* Lines 278-301.
GetCardPrintingsBegin(p, card_name) ==
    /\ Free(p)
    /\ started < MaxRequests
    /\ started' = started + 1
    /\ handler' = [handler EXCEPT ![p] = "get_card_printings"]
    /\ args' = [args EXCEPT ![p] = [card_name |-> card_name]]
    /\ LET k == printings_cache_key(card_name) IN
       /\ cache_key' = [cache_key EXCEPT ![p] = k]
       /\ IF k \in DOMAIN cache /\ is_cache_valid(cache[k][2])
          THEN /\ pc' = [pc EXCEPT ![p] = "done"]
               /\ reply' = [reply EXCEPT ![p] = Returned(cache[k][1])]
               /\ UNCHANGED << cache, writer, sent, calls, evicted >>
          ELSE /\ cache' = CacheDel(cache, k)
               /\ writer' = DictDel(writer, k)
               /\ evicted' = [evicted EXCEPT ![p] = k \in DOMAIN cache]
               /\ pc' = [pc EXCEPT ![p] = "await"]
               /\ sent' = [sent EXCEPT ![p] = PrintingsParams(card_name)]
               /\ calls' = [calls EXCEPT ![p] = @ + 1]
               /\ UNCHANGED reply
    /\ UNCHANGED << now, put_time, response, flushed >>

\* Lines 303-367.
GetCardPrintingsResume(p, resp) ==
    /\ pc[p] = "await"
    /\ handler[p] = "get_card_printings"
    /\ response' = [response EXCEPT ![p] = resp]
    /\ LET c == PrintingsCompletion(args[p].card_name, resp) IN
       /\ reply' = [reply EXCEPT ![p] = c.out]
       /\ IF c.put
          THEN /\ cache' = CachePut(cache, cache_key[p], c.out.body, now)
               /\ writer' = DictSet(writer, cache_key[p], p)
               /\ put_time' = [put_time EXCEPT ![p] = now]
          ELSE UNCHANGED << cache, writer, put_time >>
    /\ pc' = [pc EXCEPT ![p] = "done"]
    /\ flushed' = [flushed EXCEPT ![p] = FALSE]
    /\ UNCHANGED << now, handler, args, cache_key, sent, calls, evicted,
                    started >>

(***************************************************************************)
(* get_cache_stats and clear_cache.                                        *)
(***************************************************************************)
\* Mutant: total_entries counts the valid entries only.
CacheStatsTotalValid(c) ==
    [ total_entries |->
          Cardinality({ k \in DOMAIN c : is_cache_valid(c[k][2]) }),
      valid_entries |->
          Cardinality({ k \in DOMAIN c : is_cache_valid(c[k][2]) }),
      expired_entries |->
          Cardinality({ k \in DOMAIN c : ~is_cache_valid(c[k][2]) }),
      cache_duration_minutes |-> CACHE_DURATION ]

\* The counters of the scan over cache.items().
CacheStats(c) ==
    [ total_entries |-> Cardinality(DOMAIN c),
      valid_entries |->
          Cardinality({ k \in DOMAIN c : is_cache_valid(c[k][2]) }),
      expired_entries |->
          Cardinality({ k \in DOMAIN c : ~is_cache_valid(c[k][2]) }),
      cache_duration_minutes |-> CACHE_DURATION ]

GetCacheStats(p) ==
    /\ Free(p)
    /\ handler' = [handler EXCEPT ![p] = "get_cache_stats"]
    /\ args' = [args EXCEPT ![p] = <<>>]
    /\ reply' = [reply EXCEPT ![p] = Returned(CacheStats(cache))]
    /\ pc' = [pc EXCEPT ![p] = "done"]
    /\ UNCHANGED << cache, writer, now, cache_key, sent, calls, put_time,
                    response, evicted, started, flushed >>

\* Mutant: only the expired entries are removed.
ClearedExpiredOnly(c) ==
    [ k \in { x \in DOMAIN c : is_cache_valid(c[x][2]) } |-> c[k] ]

\* cache.clear()
Cleared(c) == EmptyDict

ClearCache(p) ==
    /\ Free(p)
    /\ handler' = [handler EXCEPT ![p] = "clear_cache"]
    /\ args' = [args EXCEPT ![p] = <<>>]
    /\ cache' = Cleared(cache)
    /\ writer' = [ k \in DOMAIN cache' |-> writer[k] ]
    /\ reply' = [reply EXCEPT ![p] =
                        Returned([message |-> "Cache cleared successfully"])]
    /\ pc' = [pc EXCEPT ![p] = "done"]
    /\ flushed' = [ q \in Tasks |-> flushed[q] \/ pc[q] = "await" ]
    /\ UNCHANGED << now, cache_key, sent, calls, put_time, response, evicted,
                    started >>

(***************************************************************************)
(* The environment: the client takes the response, and time passes.        *)
(***************************************************************************)
\* The response is delivered and the task is free for the next request.
Deliver(p) ==
    /\ pc[p] = "done"
    /\ pc' = [pc EXCEPT ![p] = "idle"]
    /\ handler' = [handler EXCEPT ![p] = "none"]
    /\ args' = [args EXCEPT ![p] = NoneDict]
    /\ cache_key' = [cache_key EXCEPT ![p] = None]
    /\ sent' = [sent EXCEPT ![p] = NoneDict]
    /\ calls' = [calls EXCEPT ![p] = 0]
    /\ put_time' = [put_time EXCEPT ![p] = NoneInt]
    /\ response' = [response EXCEPT ![p] = NoneDict]
    /\ evicted' = [evicted EXCEPT ![p] = FALSE]
    /\ reply' = [reply EXCEPT ![p] = NoneDict]
    /\ UNCHANGED << cache, writer, now, started, flushed >>

Tick ==
    /\ now < MaxTicks * ClockStep
    /\ now' = now + ClockStep
    /\ UNCHANGED << cache, writer, pc, handler, args, cache_key, sent, calls,
                    put_time, response, evicted, reply, started, flushed >>

Next ==
    \/ \E p \in Tasks, a \in SearchRequests : SearchCardsBegin(p, a)
    \/ \E p \in Tasks, resp \in SearchUpstream : SearchCardsResume(p, resp)
    \/ \E p \in Tasks, n \in PrintingsRequests : GetCardPrintingsBegin(p, n)
    \/ \E p \in Tasks, resp \in PrintingsUpstream : GetCardPrintingsResume(p, resp)
    \/ \E p \in Tasks : GetCacheStats(p)
    \/ \E p \in Tasks : ClearCache(p)
    \/ \E p \in Tasks : Deliver(p)
    \/ Tick

Spec == Init /\ [][Next]_vars

(***************************************************************************)
(* The query builder and the cache keys over a wider set of requests: the  *)
(* same handlers, fed with filters that exercise every token of the query  *)
(* and with values that contain the ':' of the cache key.  The clock       *)
(* stands still and the upstream answers in one of two ways.               *)
(***************************************************************************)
BuilderRequests ==
    { \* q="x"
      SearchArgs(<<"x">>, 1, None, None, None),
      \* q="c:2", page 1
      SearchArgs(<<"c", ":", "2">>, 1, None, None, None),
      \* q="c", page 2, colors="1:"
      SearchArgs(<<"c">>, 2, <<"1", ":">>, None, None),
      \* q=" Ox ", colors="r, u", types="Elf, Imp", rarity="Rare"
      SearchArgs(<<" ", "O", "x", " ">>, 1, <<"r", ",", " ", "u">>,
                 <<"E", "l", "f", ",", " ", "I", "m", "p">>,
                 <<"R", "a", "r", "e">>),
      \* colors="W" alone
      SearchArgs(None, 1, <<"W">>, None, None),
      \* types="Orc,elf" and rarity="M", empty q
      SearchArgs(<<>>, 1, None, <<"O", "r", "c", ",", "e", "l", "f">>, <<"M">>),
      \* q=" " alone
      SearchArgs(<<" ">>, 1, None, None, None) }

\* card_name "Opt" and card_name "x:1:::"
BuilderNames == { << "O", "p", "t" >>, << "x", ":", "1", ":", ":", ":" >> }

BuilderSearchUpstream ==
    { Raised("TimeoutException") }
        \cup { Responded(200, "json", b) : b \in SearchBodies }
BuilderPrintingsUpstream ==
    { Responded(404, "not found", NoneDict),
      Responded(200, "json", [ data |-> <<RawSingle, RawDouble>> ]) }

BuilderNext ==
    \/ \E p \in Tasks, a \in BuilderRequests : SearchCardsBegin(p, a)
    \/ \E p \in Tasks, resp \in BuilderSearchUpstream :
          SearchCardsResume(p, resp)
    \/ \E p \in Tasks, n \in BuilderNames : GetCardPrintingsBegin(p, n)
    \/ \E p \in Tasks, resp \in BuilderPrintingsUpstream :
          GetCardPrintingsResume(p, resp)
    \/ \E p \in Tasks : Deliver(p)

BuilderSpec == Init /\ [][BuilderNext]_vars

(***************************************************************************)
(* The upstream in all its ways of answering: one search and one card      *)
(* name, and every kind of outcome of `await client.get(...)`.  The call   *)
(* carries a timeout (10.0 s and 15.0 s), so it always yields: a response  *)
(* or an exception; hence the weak fairness on the resumptions.            *)
(***************************************************************************)
UpstreamRequests == { SearchArgs(<<"x">>, 1, None, None, None) }
UpstreamNames == { << "O", "p", "t" >> }

\* Statuses for which raise_for_status raises HTTPStatusError.
AllErrorStatuses == { 301, 400, 500, 504 }
AllFailures ==
    { Raised("TimeoutException"),
      Raised("ConnectError"),
      Responded(404, "not found", NoneDict),
      Responded(200, "<html>", NoneDict) }
        \cup { Responded(c, "upstream error", NoneDict) : c \in AllErrorStatuses }
AllSearchUpstream ==
    AllFailures \cup { Responded(200, "json", b) : b \in SearchBodies }
AllPrintingsUpstream ==
    AllFailures \cup { Responded(200, "json", b) : b \in PrintingsBodies }

\* Task p is resumed with whatever the upstream call yields.
UpstreamYields(p) ==
    \/ \E resp \in AllSearchUpstream : SearchCardsResume(p, resp)
    \/ \E resp \in AllPrintingsUpstream : GetCardPrintingsResume(p, resp)

UpstreamNext ==
    \/ \E p \in Tasks, a \in UpstreamRequests : SearchCardsBegin(p, a)
    \/ \E p \in Tasks, n \in UpstreamNames : GetCardPrintingsBegin(p, n)
    \/ \E p \in Tasks : UpstreamYields(p)
    \/ \E p \in Tasks : Deliver(p)

UpstreamSpec ==
    /\ Init
    /\ [][UpstreamNext]_vars
    /\ \A p \in Tasks : WF_vars(UpstreamYields(p))

(***************************************************************************)
(* Properties.                                                             *)
(***************************************************************************)
\* Task p takes a request in this step.
Begins(p) == pc[p] = "idle" /\ pc'[p] # "idle"
\* Task p takes a request that computes a cache key and looks it up.
Lookup(p) == Begins(p) /\ cache_key'[p] # None
\* Task p resumes after the upstream call and finishes in this step.
Resumes(p) == pc[p] = "await" /\ pc'[p] = "done"
\* Age of the resident entry under key k.
Age(k) == now - cache[k][2]

\* C1: a stored payload is the one the cache holds, stamped with the time of
\* the store; a later request that finds its key resident and younger than
\* CACHE_DURATION returns exactly that payload and issues no upstream call;
\* an entry as old as CACHE_DURATION or older is never returned.
C1_CacheRoundTrip ==
    [][\A p \in Tasks :
        /\ (Resumes(p) /\ put_time'[p] # NoneInt) =>
              cache'[cache_key[p]] = <<reply'[p].body, now>>
        /\ Lookup(p) =>
              LET k == cache_key'[p] IN
              /\ (k \in DOMAIN cache /\ Age(k) < CACHE_DURATION) =>
                    /\ pc'[p] = "done"
                    /\ reply'[p] = [status |-> 200, body |-> cache[k][1]]
                    /\ calls'[p] = 0
                    /\ sent'[p] = NoneDict
                    /\ cache' = cache
              /\ (k \in DOMAIN cache /\ Age(k) >= CACHE_DURATION) =>
                    /\ pc'[p] = "await"
                    /\ calls'[p] = 1
                    /\ reply'[p] = NoneDict
      ]_vars

\* A search answered from an entry that is ClockStep minutes old.
C1_Witness ==
    \E p \in Tasks :
        /\ pc[p] = "done" /\ handler[p] = "search_cards"
        /\ calls[p] = 0 /\ cache_key[p] # None
        /\ cache_key[p] \in DOMAIN cache
        /\ now - cache[cache_key[p]][2] = ClockStep
        /\ reply[p].body = cache[cache_key[p]][1]
        /\ Len(reply[p].body.data) = 2

\* C2: a request that finds its key resident but CACHE_DURATION old or older
\* is a miss: the entry is gone before the upstream call is in flight, and
\* if that call fails the key is still absent when the request ends.
C2_LazyEviction ==
    [][\A p \in Tasks :
        /\ Lookup(p) =>
              LET k == cache_key'[p] IN
              (k \in DOMAIN cache /\ Age(k) >= CACHE_DURATION) =>
                  /\ k \notin DOMAIN cache'
                  /\ pc'[p] = "await"
                  /\ calls'[p] = 1
        /\ (Resumes(p) /\ reply'[p].status # 200
                /\ cache_key[p] \notin DOMAIN cache) =>
              cache_key[p] \notin DOMAIN cache'
      ]_vars

\* A request evicted its expired entry, its upstream call timed out, and the
\* key is absent.
C2_Witness ==
    \E p \in Tasks :
        /\ pc[p] = "done" /\ evicted[p]
        /\ reply[p].status = 504
        /\ cache_key[p] \notin DOMAIN cache

\* None or the empty string.
Absent(v) == v = None \/ v = <<>>

\* C3: with q, colors, types and rarity all absent or empty, search_cards
\* returns the empty payload for the requested page at once, issues no
\* upstream call and leaves the cache as it is.
C3_EmptyFiltersShortCircuit ==
    [][\A p \in Tasks :
        (/\ Begins(p)
         /\ handler'[p] = "search_cards"
         /\ Absent(args'[p].q) /\ Absent(args'[p].colors)
         /\ Absent(args'[p].types) /\ Absent(args'[p].rarity)) =>
            /\ pc'[p] = "done"
            /\ reply'[p] =
                 [ status |-> 200,
                   body |-> [ data |-> <<>>, total_cards |-> 0,
                              has_more |-> FALSE, page |-> args'[p].page,
                              message |->
                        "Please provide a search query or apply filters." ] ]
            /\ calls'[p] = 0
            /\ sent'[p] = NoneDict
            /\ cache' = cache
      ]_vars

\* The short circuit taken with empty strings, page 2, and a non-empty cache.
C3_Witness ==
    \E p \in Tasks :
        /\ pc[p] = "done" /\ handler[p] = "search_cards"
        /\ args[p].q = <<>> /\ args[p].page = 2
        /\ reply[p].body.page = 2 /\ reply[p].body.total_cards = 0
        /\ calls[p] = 0
        /\ DOMAIN cache # {}

\* q is None, empty or whitespace only.
BlankText(q) == Absent(q) \/ \A i \in 1..Len(q) : q[i] = " "

\* C4: a search whose filters yield no query token (blank text, no colors,
\* no types, no rarity) never goes upstream, and the wildcard query "*" is
\* never sent.
C4_WildcardNeverSent ==
    \A p \in Tasks :
        handler[p] = "search_cards" =>
            /\ (sent[p] # NoneDict => sent[p].q # <<"*">>)
            /\ (/\ BlankText(args[p].q) /\ Absent(args[p].colors)
                /\ Absent(args[p].types) /\ Absent(args[p].rarity)) =>
                    (calls[p] = 0 /\ sent[p] = NoneDict)

\* The comma-separated values of v, trimmed and lower-cased, as a set.
CanonSet(v) ==
    IF Absent(v) THEN {}
    ELSE LET xs == split(v, ",") IN { lower(strip(xs[i])) : i \in 1..Len(xs) }
\* The text v, trimmed and lower-cased.
CanonText(v) == IF Absent(v) THEN <<>> ELSE lower(strip(v))
\* Requests a and b ask the same page of the same filter set.
SameFilters(a, b) ==
    /\ a.page = b.page
    /\ CanonText(a.q) = CanonText(b.q)
    /\ CanonSet(a.colors) = CanonSet(b.colors)
    /\ CanonSet(a.types) = CanonSet(b.types)
    /\ CanonText(a.rarity) = CanonText(b.rarity)

\* C5: two searches for the same page whose filters differ only in letter
\* case, surrounding whitespace or the order of the colour codes have the
\* same cache key.
C5_CanonicalCacheKey ==
    \A p, r \in Tasks :
        (/\ handler[p] = "search_cards" /\ handler[r] = "search_cards"
         /\ cache_key[p] # None /\ cache_key[r] # None
         /\ SameFilters(args[p], args[r])) =>
            cache_key[p] = cache_key[r]

\* What client.get yielded is a failure: an exception, a status that is
\* neither 2xx nor 404, or a 2xx body that is not JSON.
UpstreamFailed(resp) ==
    \/ resp.exc # "none"
    \/ resp.status_code \notin (200..299) \cup {404}
    \/ resp.status_code \in 200..299 /\ resp.json = NoneDict

\* C6: a request whose upstream call fails, or that ends in an error, ends
\* in an error carrying a detail only and stores nothing; the one cache
\* change a request makes before its upstream call is the removal of the
\* entry under its own key.
C6_FailureStoresNothing ==
    [][\A p \in Tasks :
        /\ (Resumes(p) /\ (UpstreamFailed(response'[p])
                            \/ reply'[p].status # 200)) =>
              /\ reply'[p].status # 200
              /\ DOMAIN reply'[p].body = {"detail"}
              /\ put_time'[p] = NoneInt
              /\ cache' = cache
        /\ Lookup(p) =>
              /\ DOMAIN cache' \subseteq DOMAIN cache
              /\ \A k \in DOMAIN cache :
                    k # cache_key'[p] =>
                        (k \in DOMAIN cache' /\ cache'[k] = cache[k])
      ]_vars

\* A request ended with the relayed status 503 and its key is absent, while
\* the cache holds another entry.
C6_Witness ==
    \E p \in Tasks :
        /\ pc[p] = "done" /\ calls[p] = 1
        /\ reply[p].status = 503
        /\ cache_key[p] \notin DOMAIN cache
        /\ DOMAIN cache # {}

\* C7: on an upstream 404 the request returns the empty payload with its
\* fixed message and stores it under its key with the current time; a
\* request that then finds that entry younger than CACHE_DURATION returns
\* it without an upstream call.
C7_NotFoundIsCached ==
    [][\A p \in Tasks :
        /\ (Resumes(p) /\ response'[p].exc = "none"
                /\ response'[p].status_code = 404) =>
              /\ reply'[p].status = 200
              /\ reply'[p].body.data = <<>>
              /\ handler[p] = "search_cards" =>
                    /\ reply'[p].body.total_cards = 0
                    /\ reply'[p].body.has_more = FALSE
                    /\ reply'[p].body.page = args[p].page
                    /\ reply'[p].body.message =
                           "No cards found matching your search."
              /\ handler[p] = "get_card_printings" =>
                    /\ reply'[p].body.total_printings = 0
                    /\ reply'[p].body.message =
                           "No printings found for this card."
              /\ cache_key[p] \in DOMAIN cache'
              /\ cache'[cache_key[p]] = <<reply'[p].body, now>>
        /\ Lookup(p) =>
              LET k == cache_key'[p] IN
              (/\ k \in DOMAIN cache
               /\ Age(k) < CACHE_DURATION
               /\ "message" \in DOMAIN cache[k][1]) =>
                    /\ calls'[p] = 0
                    /\ pc'[p] = "done"
                    /\ reply'[p].body = cache[k][1]
      ]_vars

\* A request answered from a cached not-found payload.
C7_Witness ==
    \E p \in Tasks :
        /\ pc[p] = "done" /\ calls[p] = 0 /\ cache_key[p] # None
        /\ cache_key[p] \in DOMAIN cache
        /\ reply[p].body = cache[cache_key[p]][1]
        /\ "message" \in DOMAIN reply[p].body
        /\ reply[p].body.data = <<>>

\* C8: the entry under a key is the payload and timestamp of the request
\* that assigned it last, whatever other requests for the key did before;
\* and a request whose own upstream call succeeded returns a payload.
C8_LastWriteWins ==
    /\ \A k \in DOMAIN cache :
          LET p == writer[k] IN
          (pc[p] = "done" /\ cache_key[p] = k /\ put_time[p] # NoneInt) =>
              cache[k] = <<reply[p].body, put_time[p]>>
    /\ \A p \in Tasks :
          (/\ pc[p] = "done" /\ handler[p] = "search_cards" /\ calls[p] = 1
           /\ ~UpstreamFailed(response[p])) =>
              (reply[p].status = 200 /\ put_time[p] # NoneInt)

\* Two searches for one key both went upstream, both stored, and the cache
\* holds what the later one stored.
C8_Witness ==
    \E p, r \in Tasks :
        /\ p # r /\ pc[p] = "done" /\ pc[r] = "done"
        /\ handler[p] = "search_cards" /\ handler[r] = "search_cards"
        /\ cache_key[p] = cache_key[r]
        /\ calls[p] = 1 /\ calls[r] = 1
        /\ put_time[p] # NoneInt /\ put_time[r] # NoneInt
        /\ put_time[p] < put_time[r]
        /\ reply[p].body # reply[r].body
        /\ cache_key[r] \in DOMAIN cache
        /\ writer[cache_key[r]] = r
        /\ cache[cache_key[r]] = <<reply[r].body, put_time[r]>>

\* C9: clear_cache leaves the cache empty whatever it held, and a
\* get_cache_stats that runs on the cleared cache reports three zeros.
C9_ClearRemovesAll ==
    [][\A p \in Tasks :
        /\ (Begins(p) /\ handler'[p] = "clear_cache") =>
              /\ DOMAIN cache' = {}
              /\ pc'[p] = "done"
              /\ reply'[p].status = 200
        /\ (Begins(p) /\ handler'[p] = "get_cache_stats"
                /\ DOMAIN cache = {}) =>
              /\ reply'[p].body.total_entries = 0
              /\ reply'[p].body.valid_entries = 0
              /\ reply'[p].body.expired_entries = 0
      ]_vars

\* A request stored an entry at the current clock reading, and clear_cache
\* has emptied the cache since.
C9_Witness ==
    \E p, r \in Tasks :
        /\ pc[p] = "done" /\ handler[p] = "clear_cache"
        /\ pc[r] = "done" /\ put_time[r] = now
        /\ DOMAIN cache = {}

\* C10: get_cache_stats reports the number of resident entries, of those
\* younger than CACHE_DURATION and of the others, the first being the sum
\* of the other two, and leaves the cache as it is, also while requests
\* are suspended in their upstream call.
C10_StatsConsistent ==
    [][\A p \in Tasks :
        (Begins(p) /\ handler'[p] = "get_cache_stats") =>
            LET b == reply'[p].body IN
            /\ pc'[p] = "done"
            /\ reply'[p].status = 200
            /\ b.total_entries = Cardinality(DOMAIN cache)
            /\ b.valid_entries =
                 Cardinality({ k \in DOMAIN cache : Age(k) < CACHE_DURATION })
            /\ b.expired_entries =
                 Cardinality({ k \in DOMAIN cache : Age(k) >= CACHE_DURATION })
            /\ b.total_entries = b.valid_entries + b.expired_entries
            /\ cache' = cache
      ]_vars

\* Stats taken while a request is suspended report one expired entry, which
\* is still resident.
C10_Witness ==
    \E p, r \in Tasks :
        /\ pc[p] = "done" /\ handler[p] = "get_cache_stats"
        /\ pc[r] = "await"
        /\ reply[p].body.total_entries = 1
        /\ reply[p].body.expired_entries = 1
        /\ Cardinality(DOMAIN cache) = 1

\* C11: the cache key of a search_cards request is never the cache key of
\* a get_card_printings request, whatever the filters and the card name;
\* so a search that ends with a payload ends with a search payload, and a
\* printings request with a printings payload, also when served from the
\* cache.
C11_KeyNamespacing ==
    /\ \A a \in BuilderRequests, n \in BuilderNames :
          SearchCacheKey(a) # printings_cache_key(n)
    /\ \A p, r \in Tasks :
          (/\ handler[p] = "search_cards" /\ cache_key[p] # None
           /\ handler[r] = "get_card_printings") =>
              cache_key[p] # cache_key[r]
    /\ \A p \in Tasks :
          (pc[p] = "done" /\ reply[p].status = 200) =>
              /\ (handler[p] = "search_cards") =>
                    "total_cards" \in DOMAIN reply[p].body
              /\ (handler[p] = "get_card_printings") =>
                    "total_printings" \in DOMAIN reply[p].body

\* The search for "x" on page 1 has stored its payload, and the printings
\* request for the card name "x:1:::" went upstream and stored its own: the
\* cache holds both under different keys.
C11_Witness ==
    \E p, r \in Tasks :
        /\ handler[p] = "search_cards" /\ args[p].q = <<"x">>
        /\ pc[p] = "done" /\ put_time[p] # NoneInt
        /\ handler[r] = "get_card_printings"
        /\ args[r].card_name = << "x", ":", "1", ":", ":", ":" >>
        /\ pc[r] = "done" /\ calls[r] = 1 /\ reply[r].status = 200
        /\ cache_key[p] \in DOMAIN cache /\ cache_key[r] \in DOMAIN cache
        /\ cache[cache_key[p]] # cache[cache_key[r]]

\* The detail of an error reply starts with this text.
DetailStarts(out, what) ==
    DOMAIN out.body = {"detail"} /\ out.body.detail[1] = what

\* C12: a request whose upstream call times out ends with status 504; one
\* whose upstream response has a status that is neither 2xx nor 404 ends
\* with that status; a request that fails in any other way ends with
\* status 500; each of the three carries its own detail text, and none is
\* a 200 payload.
C12_ErrorTaxonomy ==
    [][\A p \in Tasks :
        Resumes(p) =>
            LET resp == response'[p]
                out  == reply'[p]
                timedOut == resp.exc = "TimeoutException"
                badStatus ==
                    /\ resp.exc = "none"
                    /\ resp.status_code \notin (200..299) \cup {404}
                otherFailure ==
                    \/ resp.exc \notin {"none", "TimeoutException"}
                    \/ /\ resp.exc = "none" /\ resp.status_code \in 200..299
                       /\ resp.json = NoneDict
                    \/ ~timedOut /\ ~badStatus /\ out.status # 200
            IN  /\ timedOut =>
                      /\ out.status = 504
                      /\ DetailStarts(out, "Request to Scryfall API timed out")
                /\ badStatus =>
                      /\ out.status = resp.status_code
                      /\ DetailStarts(out, "Scryfall API error: ")
                      /\ out.body.detail[2] = resp.text
                /\ otherFailure =>
                      /\ out.status = 500
                      /\ DetailStarts(out, "Internal server error: ")
                /\ (timedOut \/ badStatus \/ otherFailure) =>
                      (out.status # 200 /\ put_time'[p] = NoneInt)
      ]_vars

\* One request ended with 504 because its call timed out, another with 504
\* because the upstream answered 504: the statuses agree, the details tell
\* them apart.
C12_Witness ==
    \E p, r \in Tasks :
        /\ pc[p] = "done" /\ pc[r] = "done"
        /\ handler[p] = "search_cards" /\ handler[r] = "get_card_printings"
        /\ response[p].exc = "TimeoutException" /\ reply[p].status = 504
        /\ response[r].exc = "none" /\ response[r].status_code = 504
        /\ reply[r].status = 504
        /\ reply[p].body.detail # reply[r].body.detail

\* Task p has returned the payload built from a parsed upstream body.
Normalised(p) ==
    /\ pc[p] = "done" /\ calls[p] = 1 /\ reply[p].status = 200
    /\ response[p].exc = "none" /\ response[p].status_code = 200
    /\ response[p].json # NoneDict

\* The value the fallback policy "top-level wins, front face fills gaps"
\* gives field f of the raw record card.
TopLevelFirst(card, f, default) ==
    IF f \in DOMAIN card THEN card[f]
    ELSE GetDefault(card.card_faces[1], f, default)

\* C13: in the payload of a search, every record normalised from a raw
\* record with a non-empty card_faces has mana_cost, type_line,
\* oracle_text, power, toughness and image_uris equal to the raw top-level
\* value when the raw record has one, and to the front face's value
\* otherwise.
C13_TopLevelWins ==
    \A p \in Tasks :
        (Normalised(p) /\ handler[p] = "search_cards") =>
            LET data == response[p].json.data IN
            \A i \in 1..Len(data) :
                ("card_faces" \in DOMAIN data[i] /\ data[i].card_faces # <<>>) =>
                    /\ \A f \in { "mana_cost", "type_line", "oracle_text",
                                  "power", "toughness" } :
                          reply[p].body.data[i][f] =
                              TopLevelFirst(data[i], f, None)
                    /\ reply[p].body.data[i].image_uris =
                          TopLevelFirst(data[i], "image_uris", <<>>)

\* The release date of a printing, a missing one counting as the empty
\* string.
ReleaseDate(x) ==
    IF "released_at" \in DOMAIN x /\ x.released_at # None
    THEN x.released_at ELSE <<>>

\* C14: a get_card_printings request whose upstream call yields a parsed
\* list of records, some of them possibly without a release date, ends with
\* a payload that holds one printing per record, ordered by release date
\* descending with the undated ones last.
C14_PrintingsSorted ==
    \A p \in Tasks :
        (/\ handler[p] = "get_card_printings"
         /\ pc[p] = "done" /\ calls[p] = 1
         /\ response[p].exc = "none" /\ response[p].status_code = 200
         /\ response[p].json # NoneDict) =>
            /\ reply[p].status = 200
            /\ Len(reply[p].body.data) = Len(response[p].json.data)
            /\ \A i, j \in 1..Len(reply[p].body.data) :
                  i < j => ~StrLess(ReleaseDate(reply[p].body.data[i]),
                                    ReleaseDate(reply[p].body.data[j]))

\* C15: whenever the entry under a key k disappears or changes, the step
\* is clear_cache, or a request that looks up exactly k and finds it
\* CACHE_DURATION old or older (and removes it), or a request for exactly
\* k that stores its own result; entries under other keys stay as they
\* are.
C15_OnlyOwnKeyOrClear ==
    [][\A k \in DOMAIN cache :
        (k \notin DOMAIN cache' \/ cache'[k] # cache[k]) =>
            \E p \in Tasks :
                \/ /\ Begins(p) /\ handler'[p] = "clear_cache"
                   /\ k \notin DOMAIN cache'
                \/ /\ Lookup(p) /\ cache_key'[p] = k
                   /\ Age(k) >= CACHE_DURATION
                   /\ k \notin DOMAIN cache'
                \/ /\ Resumes(p) /\ cache_key[p] = k
                   /\ k \in DOMAIN cache'
                   /\ cache'[k] = <<reply'[p].body, now>>
      ]_vars

\* A request has missed on its own key and is suspended in its upstream
\* call, while the entry another request stored under a different key,
\* CACHE_DURATION old, is still resident.
C15_Witness ==
    \E p, r \in Tasks :
        /\ pc[p] = "await" /\ calls[p] = 1
        /\ cache_key[p] \notin DOMAIN cache
        /\ pc[r] = "done" /\ put_time[r] # NoneInt
        /\ cache_key[r] # cache_key[p]
        /\ cache_key[r] \in DOMAIN cache
        /\ now - cache[cache_key[r]][2] >= CACHE_DURATION

\* C16: a request served from the cache leaves the cache as it is, payload
\* and timestamp included; the pair under a key changes only when a
\* request for that key stores its result, and the new pair is that result
\* with the current time; every new entry carries the current time; and a
\* payload is served from the cache only while the clock is below the
\* entry's timestamp plus CACHE_DURATION.
C16_NoRefresh ==
    [][/\ \A p \in Tasks :
            (Lookup(p) /\ pc'[p] = "done") =>
                LET k == cache_key'[p] IN
                /\ k \in DOMAIN cache
                /\ now < cache[k][2] + CACHE_DURATION
                /\ reply'[p].body = cache[k][1]
                /\ cache' = cache
       /\ \A k \in DOMAIN cache' :
            (k \notin DOMAIN cache \/ cache'[k] # cache[k]) =>
                /\ cache'[k][2] = now
                /\ \E p \in Tasks :
                      /\ Resumes(p) /\ cache_key[p] = k
                      /\ cache'[k][1] = reply'[p].body
      ]_vars

\* A printings request was served from an entry that is ClockStep minutes
\* old, and the entry still carries the timestamp of its store.
C16_Witness ==
    \E p \in Tasks :
        /\ pc[p] = "done" /\ handler[p] = "get_card_printings"
        /\ calls[p] = 0
        /\ cache_key[p] \in DOMAIN cache
        /\ cache[cache_key[p]][2] = now - ClockStep
        /\ reply[p].body = cache[cache_key[p]][1]

\* C17: a request issues at most one upstream call; once the call has
\* yielded, the request ends in that same step, without a further call,
\* with either a payload or an error, a timeout ending as an error; and a
\* request suspended in its upstream call eventually ends.
C17_NoRetryAndCompletion ==
    /\ [](\A p \in Tasks : calls[p] <= 1)
    /\ [][\A p \in Tasks :
            Resumes(p) =>
                /\ calls'[p] = calls[p]
                /\ sent'[p] = sent[p]
                /\ reply'[p] # NoneDict
                /\ (reply'[p].status = 200) # ("detail" \in DOMAIN reply'[p].body)
                /\ (response'[p].exc = "TimeoutException") =>
                      (reply'[p].status # 200 /\ put_time'[p] = NoneInt)
         ]_vars
    /\ \A p \in Tasks : (pc[p] = "await") ~> (pc[p] = "done")

\* A printings request whose only upstream call timed out has ended with
\* an error.
C17_Witness ==
    \E p \in Tasks :
        /\ pc[p] = "done" /\ handler[p] = "get_card_printings"
        /\ calls[p] = 1
        /\ response[p].exc = "TimeoutException"
        /\ reply[p].status = 504
        /\ "detail" \in DOMAIN reply[p].body

\* The strings of xs one after the other, and with one space in between.
RECURSIVE Concatenated(_)
Concatenated(xs) ==
    IF xs = <<>> THEN <<>> ELSE Head(xs) \o Concatenated(Tail(xs))
RECURSIVE SpaceJoined(_)
SpaceJoined(xs) ==
    IF xs = <<>> THEN <<>>
    ELSE IF Len(xs) = 1 THEN xs[1]
    ELSE xs[1] \o <<" ">> \o SpaceJoined(Tail(xs))

\* The tokens the filters of request a stand for: the trimmed text if it
\* is not blank, c: with the colour codes in upper case, one t: per type
\* in lower case, r: with the rarity in lower case.
ExpectedTokens(a) ==
    LET codes == IF Absent(a.colors) THEN <<>> ELSE split(a.colors, ",")
        kinds == IF Absent(a.types) THEN <<>> ELSE split(a.types, ",")
    IN  (IF BlankText(a.q) THEN <<>> ELSE <<strip(a.q)>>)
        \o (IF Absent(a.colors) THEN <<>>
            ELSE << <<"c", ":">> \o Concatenated(
                      [ i \in 1..Len(codes) |-> upper(strip(codes[i])) ]) >>)
        \o [ i \in 1..Len(kinds) |-> <<"t", ":">> \o lower(strip(kinds[i])) ]
        \o (IF Absent(a.rarity) THEN <<>>
            ELSE << <<"r", ":">> \o lower(a.rarity) >>)

C19_SameKeySameQuestion ==
    \A p, r \in Tasks :
        (/\ handler[p] = "search_cards" /\ pc[p] = "done"
         /\ calls[p] = 0 /\ cache_key[p] # None
         /\ handler[r] = "search_cards" /\ pc[r] = "done"
         /\ put_time[r] # NoneInt
         /\ cache_key[r] = cache_key[p]
         /\ cache_key[p] \in DOMAIN cache
         /\ writer[cache_key[p]] = r
         /\ reply[p].body = cache[cache_key[p]][1]) =>
            /\ sent[r].q = SearchParams(args[p]).q
            /\ sent[r].page = SearchParams(args[p]).page

\* C20: no request stores a result that it fetched with an upstream call
\* issued before a clear_cache: once clear_cache has run, the cache holds
\* only what requests started after it have stored.
C20_ClearInvalidates ==
    [][\A p \in Tasks :
        (Resumes(p) /\ flushed[p]) =>
            /\ put_time'[p] = NoneInt
            /\ cache' = cache
      ]_vars

====
